---- MODULE Spec2Model ----
(***************************************************************************)
(* Model of src/Script/RamCalculations.ts:                                 *)
(*   - checkInfiniteLoop: the acorn-walk traversal that looks for          *)
(*     `while(true)` loops without an await (specification SpecLoop);      *)
(*   - getRamCalculationForKeys: the RAM cost aggregation over a sequence  *)
(*     of keys (specification SpecRam).                                    *)
(***************************************************************************)
EXTENDS Integers, Sequences, FiniteSets, TLC

\* checkInfiniteLoop: the text, its tree, the nodes the walk has yet to visit,
\* the line found, the loops the callback ran on, the value returned.
VARIABLES code, ast, stack, missingAwaitLine, visited, result, pc
\* getRamCalculationForKeys: its arguments, RamCosts, the value returned.
VARIABLES player, catalog, keys, ram, rpc

loopVars == <<code, ast, stack, missingAwaitLine, visited, result, pc>>

ramVars == <<player, catalog, keys, ram, rpc>>

vars == <<loopVars, ramVars>>

(***************************************************************************)
(* Bounds of the inputs.                                                   *)
(***************************************************************************)
\* Largest number of AST nodes of a script.
MaxNodes == 9
\* Largest number of statements in a statement list.
MaxKids == 2
\* Largest number of newline characters in a script's text.
MaxNewlines == 1

(***************************************************************************)
(* AST nodes.  A node is a record [type, raw, start, kids]; kids are the   *)
(* children in the order acorn-walk's base visitor visits them.  A         *)
(* WhileStatement has kids <<test, body>>.  A FunctionExpression stands    *)
(* for the function together with its body block: its kids are the body's  *)
(* statements.  The argument of an AwaitExpression and the wrapping        *)
(* ExpressionStatement hold no statement and are left out.                 *)
(***************************************************************************)
Node(t, r, ks) == [type |-> t, raw |-> r, start |-> 0, kids |-> ks]

LitTrue == Node("Literal", "true", <<>>)
LitFalse == Node("Literal", "false", <<>>)
AwaitNode == Node("AwaitExpression", "", <<>>)
EmptyBlock == Node("BlockStatement", "", <<>>)

\* The number of nodes of a tree.
RECURSIVE Size(_)
Size(t) == LET RECURSIVE Sum(_)
               Sum(ks) == IF ks = <<>> THEN 0 ELSE Size(Head(ks)) + Sum(Tail(ks))
           IN 1 + Sum(t.kids)

RECURSIVE Items(_), Bodies(_), Tests(_), Lists(_, _)

\* The statement lists of at most k statements and at most n nodes in all.
Lists(n, k) ==
  IF k = 0 \/ n <= 0 THEN {<<>>}
  ELSE {<<>>} \cup
       UNION { { <<s>> \o rest : rest \in Lists(n - Size(s), k - 1) } : s \in Items(n) }

\* The expressions a loop tests: true, false, or a function expression.
Tests(n) ==
  IF n <= 0 THEN {}
  ELSE {LitTrue, LitFalse} \cup
       { Node("FunctionExpression", "", l) : l \in Lists(n - 1, MaxKids) \ {<<>>} }

\* The bodies of a loop: a statement, or a block of statements.
Bodies(n) ==
  IF n <= 0 THEN {}
  ELSE {AwaitNode} \cup
       { Node("BlockStatement", "", l) : l \in Lists(n - 1, MaxKids) } \cup
       UNION { { Node("WhileStatement", "", <<t, b>>) : b \in Bodies(n - 1 - Size(t)) }
               : t \in Tests(n - 2) }

\* The statements of a statement list.
Items(n) ==
  IF n <= 0 THEN {}
  ELSE {AwaitNode, EmptyBlock} \cup
       UNION { { Node("WhileStatement", "", <<t, b>>) : b \in Bodies(n - 1 - Size(t)) }
               : t \in Tests(n - 2) }

\* The scripts: a Program node over a statement list.
Programs == { Node("Program", "", l) : l \in Lists(MaxNodes - 1, MaxKids) }

(***************************************************************************)
(* parse(code): the text and the tree agree.  Node i (in source order)     *)
(* is one character of the text, preceded by a newline when i \in nl; its  *)
(* start is the offset of that character.                                  *)
(***************************************************************************)
StartOf(i, nl) == i + Cardinality({ j \in nl : j <= i })

RECURSIVE Annot(_, _, _), AnnotKids(_, _, _)
Annot(t, i, nl) ==
  [type |-> t.type, raw |-> t.raw, start |-> StartOf(i, nl),
   kids |-> AnnotKids(t.kids, i + 1, nl)]

AnnotKids(ks, i, nl) ==
  IF ks = <<>> THEN <<>>
  ELSE <<Annot(Head(ks), i, nl)>> \o AnnotKids(Tail(ks), i + Size(Head(ks)), nl)

RECURSIVE Text(_, _, _)
Text(i, n, nl) ==
  IF i >= n THEN <<>>
  ELSE (IF i \in nl THEN <<"\n">> ELSE <<>>) \o <<"x">> \o Text(i + 1, n, nl)

RECURSIVE Nodes(_)
Nodes(t) == {t} \cup UNION { Nodes(t.kids[k]) : k \in 1..Len(t.kids) }

WhileNodes(t) == { n \in Nodes(t) : n.type = "WhileStatement" }

\* Where a script of shape t may have its newlines: before a while loop.
Layouts(t) ==
  { nl \in SUBSET { n.start : n \in WhileNodes(Annot(t, 0, {})) } :
      Cardinality(nl) <= MaxNewlines }

(***************************************************************************)
(* checkInfiniteLoop                                                       *)
(***************************************************************************)
nodeHasTrueTest(node) == node.type = "Literal" /\ node.raw = "true"

RECURSIVE hasAwait(_)
hasAwait(node) ==
  \/ node.type = "AwaitExpression"
  \/ \E k \in 1..Len(node.kids) : hasAwait(node.kids[k])

RECURSIVE CountNewlines(_)
CountNewlines(s) ==
  IF s = <<>> THEN 0
  ELSE (IF Head(s) = "\n" THEN 1 ELSE 0) + CountNewlines(Tail(s))

\* (code.slice(0, node.start).match(/\n/g) || []).length + 1
LineOf(text, start) == CountNewlines(SubSeq(text, 1, start)) + 1

InitLoop ==
  \E t \in Programs : \E nl \in Layouts(t) :
    /\ code = Text(0, Size(t), nl)
    /\ ast = Annot(t, 0, nl)
    /\ stack = <<Annot(t, 0, nl)>>
    /\ missingAwaitLine = -1
    /\ visited = <<>>
    /\ result = 0
    /\ pc = "walk"
    /\ player = 0 /\ catalog = <<>> /\ keys = <<>>
    /\ ram = [cost |-> 0, entries |-> <<>>] /\ rpc = "idle"

\* The base visitor of a node type without a callback: visit the children.
VisitBase ==
  /\ pc = "walk" /\ stack # <<>>
  /\ Head(stack).type # "WhileStatement"
  /\ stack' = Head(stack).kids \o Tail(stack)
  /\ UNCHANGED <<code, ast, missingAwaitLine, visited, result, pc>>
  /\ UNCHANGED ramVars

\* The callback on a condemned loop, were it to walk into the body as well.
VisitWhileFlag_Descends ==
  /\ pc = "walk" /\ stack # <<>>
  /\ Head(stack).type = "WhileStatement"
  /\ nodeHasTrueTest(Head(stack).kids[1]) /\ ~hasAwait(Head(stack))
  /\ missingAwaitLine' = LineOf(code, Head(stack).start)
  /\ visited' = Append(visited, Head(stack).start)
  /\ stack' = <<Head(stack).kids[2]>> \o Tail(stack)
  /\ UNCHANGED <<code, ast, result, pc>>
  /\ UNCHANGED ramVars

\* The WhileStatement callback on a loop with a true test and no await.
VisitWhileFlag ==
  /\ pc = "walk" /\ stack # <<>>
  /\ Head(stack).type = "WhileStatement"
  /\ nodeHasTrueTest(Head(stack).kids[1]) /\ ~hasAwait(Head(stack))
  /\ missingAwaitLine' = LineOf(code, Head(stack).start)
  /\ visited' = Append(visited, Head(stack).start)
  /\ stack' = Tail(stack)
  /\ UNCHANGED <<code, ast, result, pc>>
  /\ UNCHANGED ramVars

\* The WhileStatement callback on any other loop: walk into the body.
VisitWhileDescend ==
  /\ pc = "walk" /\ stack # <<>>
  /\ Head(stack).type = "WhileStatement"
  /\ ~(nodeHasTrueTest(Head(stack).kids[1]) /\ ~hasAwait(Head(stack)))
  /\ visited' = Append(visited, Head(stack).start)
  /\ stack' = <<Head(stack).kids[2]>> \o Tail(stack)
  /\ UNCHANGED <<code, ast, missingAwaitLine, result, pc>>
  /\ UNCHANGED ramVars

\* return missingAwaitLine
ReturnLine ==
  /\ pc = "walk" /\ stack = <<>>
  /\ result' = missingAwaitLine
  /\ pc' = "done"
  /\ UNCHANGED <<code, ast, stack, missingAwaitLine, visited>>
  /\ UNCHANGED ramVars

NextLoop == VisitBase \/ VisitWhileFlag \/ VisitWhileDescend \/ ReturnLine


(***************************************************************************)
(* JavaScript numbers.  A number is [s, e, m]: sign s (0 for zero), and    *)
(* for a nonzero number the binary exponent e and the 53 bits m of the     *)
(* significand, most significant first (m[1] = 1), as in an IEEE 754       *)
(* double: the value is s * 1.m[2]...m[53] * 2^e.                          *)
(***************************************************************************)
Zeros(n) == [i \in 1..n |-> 0]

Nibble(d) == <<d \div 8, (d \div 4) % 2, (d \div 2) % 2, d % 2>>

RECURSIVE HexBits(_)
HexBits(h) == IF h = <<>> THEN <<>> ELSE Nibble(Head(h)) \o HexBits(Tail(h))

\* The double 0x1.<h>p<e>, h being 13 hexadecimal digits, with sign s.
Dbl(s, e, h) == [s |-> s, e |-> e, m |-> <<1>> \o HexBits(h)]

Zero == [s |-> 0, e |-> 0, m |-> Zeros(53)]

OrBits(b) == IF \E i \in 1..Len(b) : b[i] = 1 THEN 1 ELSE 0

\* The value of the k-th byte of a bit string, and the bits of a byte.
Val8(b, k) ==
  128 * b[8 * k - 7] + 64 * b[8 * k - 6] + 32 * b[8 * k - 5] + 16 * b[8 * k - 4]
    + 8 * b[8 * k - 3] + 4 * b[8 * k - 2] + 2 * b[8 * k - 1] + b[8 * k]

Bits8(v) ==
  <<(v \div 128) % 2, (v \div 64) % 2, (v \div 32) % 2, (v \div 16) % 2,
    (v \div 8) % 2, (v \div 4) % 2, (v \div 2) % 2, v % 2>>

\* a + b + c for two bit strings of k bytes, byte by byte: one bit longer.
RECURSIVE AddC(_, _, _, _)
AddC(a, b, k, c) ==
  IF k = 0 THEN <<c>>
  ELSE LET t == Val8(a, k) + Val8(b, k) + c
       IN AddC(a, b, k - 1, t \div 256) \o Bits8(t % 256)

\* mant + 1 for a significand that is not all ones.
Increment(mant) ==
  LET j == CHOOSE i \in 1..53 : mant[i] = 0 /\ \A l \in (i + 1)..53 : mant[l] = 1
  IN [i \in 1..53 |-> IF i < j THEN mant[i] ELSE IF i = j THEN 1 ELSE 0]

\* Round a significand to nearest, ties to even, given the guard and sticky bits.
RoundEven(e, mant, guard, sticky) ==
  IF guard = 1 /\ (sticky = 1 \/ mant[53] = 1)
  THEN IF \A i \in 1..53 : mant[i] = 1
       THEN [s |-> 1, e |-> e + 1, m |-> <<1>> \o Zeros(52)]
       ELSE [s |-> 1, e |-> e, m |-> Increment(mant)]
  ELSE [s |-> 1, e |-> e, m |-> mant]

\* x + y for two positive doubles.
PosAdd(x, y) ==
  LET hi == IF x.e >= y.e THEN x ELSE y
      lo == IF x.e >= y.e THEN y ELSE x
      d == IF hi.e - lo.e > 56 THEN 56 ELSE hi.e - lo.e
      a == hi.m \o <<0, 0, 0>>
      full == Zeros(d) \o lo.m \o <<0, 0, 0>>
      b == SubSeq(full, 1, 55) \o <<OrBits(SubSeq(full, 56, 56 + d))>>
      sum == AddC(a, b, 7, 0)
  IN IF sum[1] = 1
     THEN RoundEven(hi.e + 1, SubSeq(sum, 1, 53), sum[54], OrBits(SubSeq(sum, 55, 57)))
     ELSE RoundEven(hi.e, SubSeq(sum, 2, 54), sum[55], OrBits(SubSeq(sum, 56, 57)))

\* x + y, for the operands the total is built from: zero and positive numbers
\* (the entries are filtered to cost > 0 before they are added up).
FAdd(x, y) ==
  IF x.s = 0 THEN y
  ELSE IF y.s = 0 THEN x
  ELSE PosAdd(x, y)

(***************************************************************************)
(* RamCostConstants and RamCosts (../Netscript/RamCostGenerator).          *)
(***************************************************************************)
\* 1.6
ScriptBaseRamCost == Dbl(1, 0, <<9, 9, 9, 9, 9, 9, 9, 9, 9, 9, 9, 9, 10>>)
\* 4.0
ScriptHacknetNodesRamCost == Dbl(1, 2, <<0, 0, 0, 0, 0, 0, 0, 0, 0, 0, 0, 0, 0>>)
\* 25
ScriptDomRamCost == Dbl(1, 4, <<9, 0, 0, 0, 0, 0, 0, 0, 0, 0, 0, 0, 0>>)
\* 2 ** 40
ScriptCorporationRamCost == Dbl(1, 40, <<0, 0, 0, 0, 0, 0, 0, 0, 0, 0, 0, 0, 0>>)

\* The namespaces of RamCosts the lookup goes through, in its order.
NamespaceOrder ==
  <<"bladeburner", "codingcontract", "stanek", "gang", "sleeve", "stock", "ui">>

Namespaces == { NamespaceOrder[i] : i \in 1..Len(NamespaceOrder) }

\* Largest number of keys handed to getRamCalculationForKeys.
MaxKeys == 2
\* Largest number of places of RamCosts that hold a value for a name.
MaxCatalogEntries == 2

\* The player, as far as a cost function reads it.
PlayerStates == {0, 1, 2}

KeyNames == {"hacknet", "document", "window", "corporation", "hack"}

KeySeqs == UNION { [1..n -> KeyNames] : n \in 0..MaxKeys }

\* The values RamCosts holds, by name.  CostValue(v) is [type, num, fn]:
\* typeof the value, the number it is when a number, and the function it is
\* when a function.
NoFn == [p \in PlayerStates |-> Zero]

\* 0.1
Tenth == Dbl(1, -4, <<9, 9, 9, 9, 9, 9, 9, 9, 9, 9, 9, 9, 10>>)
\* -1
MinusOne == Dbl(-1, 0, <<0, 0, 0, 0, 0, 0, 0, 0, 0, 0, 0, 0, 0>>)
\* 0.5
Half == Dbl(1, -1, <<0, 0, 0, 0, 0, 0, 0, 0, 0, 0, 0, 0, 0>>)

\* A cost function of the player: 0, -1 or 0.5.
PlayerCost == [p \in PlayerStates |-> CASE p = 0 -> Zero [] p = 1 -> MinusOne [] p = 2 -> Half]

CostValue(v) ==
  CASE v = "absent" -> [type |-> "undefined", num |-> Zero, fn |-> NoFn]
    [] v = "0.1" -> [type |-> "number", num |-> Tenth, fn |-> NoFn]
    [] v = "function" -> [type |-> "function", num |-> Zero, fn |-> PlayerCost]
    [] v = "object" -> [type |-> "object", num |-> Zero, fn |-> NoFn]

\* A number, a cost function of the player, and a value that is neither.
CostValues == {"0.1", "function", "object"}

Spaces == Namespaces \cup {"default"}

\* The places of RamCosts the catalogs below hold values in: the first, a
\* middle and the last namespace of the lookup, and RamCosts itself.
PopulatedSpaces == {"bladeburner", "stanek", "ui", "default"}

CatalogNames == {"hack", "hacknet"}

\* RamCosts with values for one name in at most MaxCatalogEntries places:
\* cat[ns][key] is RamCosts[ns][key], cat["default"][key] is RamCosts[key],
\* "absent" where the object has no such property.
Catalogs ==
  { [sp \in Spaces |-> [k \in KeyNames |->
        IF k = place.name /\ sp \in DOMAIN place.vals THEN place.vals[sp] ELSE "absent"]] :
    place \in UNION { UNION { { [name |-> n, vals |-> f] : f \in [S -> CostValues] } :
                              S \in { T \in SUBSET PopulatedSpaces :
                                       Cardinality(T) <= MaxCatalogEntries } } :
                      n \in CatalogNames } }

(***************************************************************************)
(* getRamCalculationForKeys                                                *)
(***************************************************************************)
BaseEntry == [type |-> "misc", name |-> "baseCost", cost |-> ScriptBaseRamCost]

IsSpecialKey_NoHacknet(key) == key \in {"document", "window", "corporation"}

\* The keys the switch has a case for.
IsSpecialKey(key) == key \in {"hacknet", "document", "window", "corporation"}

\* The entry the switch pushes for a special key.
SpecialEntry(key) ==
  CASE key = "hacknet" -> [type |-> "ns", name |-> "hacknet", cost |-> ScriptHacknetNodesRamCost]
    [] key = "document" -> [type |-> "dom", name |-> "document", cost |-> ScriptDomRamCost]
    [] key = "window" -> [type |-> "dom", name |-> "window", cost |-> ScriptDomRamCost]
    [] key = "corporation" ->
         [type |-> "ns", name |-> "corporation", cost |-> ScriptCorporationRamCost]

\* key in RamCosts[namespace]
KeyIn(key, cat, namespace) == cat[namespace][key] # "absent"

\* The namespace loop with its break, from the i-th namespace on; 0 when the
\* key is in none.
RECURSIVE FirstNamespace_Last(_, _, _)
FirstNamespace_Last(key, cat, i) ==
  IF i > Len(NamespaceOrder) THEN 0
  ELSE LET later == FirstNamespace_Last(key, cat, i + 1)
       IN IF later # 0 THEN later
          ELSE IF KeyIn(key, cat, NamespaceOrder[i]) THEN i ELSE 0

RECURSIVE FirstNamespace(_, _, _)
FirstNamespace(key, cat, i) ==
  IF i > Len(NamespaceOrder) THEN 0
  ELSE IF KeyIn(key, cat, NamespaceOrder[i]) THEN i
  ELSE FirstNamespace(key, cat, i + 1)

\* The cost value and the name a key that is not special resolves to.
Resolve(key, cat) ==
  LET i == FirstNamespace(key, cat, 1)
  IN IF i # 0
     THEN [cost |-> cat[NamespaceOrder[i]][key], name |-> NamespaceOrder[i] \o "." \o key]
     ELSE [cost |-> cat["default"][key], name |-> key]

\* typeof cost === 'function' ? cost(player) : typeof cost !== 'number' ? 0 : cost
EvalCost(v, p) ==
  IF CostValue(v).type = "function" THEN CostValue(v).fn[p]
  ELSE IF CostValue(v).type # "number" THEN Zero
  ELSE CostValue(v).num

\* The loop over the keys: the entries pushed, given those pushed so far.
RECURSIVE KeysLoop_BreakOnZero(_, _, _, _, _)
KeysLoop_BreakOnZero(entries, seen, ks, p, cat) ==
  IF ks = <<>> THEN entries
  ELSE LET key == Head(ks)
           r == Resolve(key, cat)
           cost == EvalCost(r.cost, p)
       IN IF key \in seen
          THEN KeysLoop_BreakOnZero(entries, seen, Tail(ks), p, cat)
          ELSE IF IsSpecialKey(key)
          THEN KeysLoop_BreakOnZero(Append(entries, SpecialEntry(key)), seen \cup {key},
                                    Tail(ks), p, cat)
          ELSE IF cost.s = 0
          THEN entries
          ELSE KeysLoop_BreakOnZero(
                 Append(entries, [type |-> "fn", name |-> r.name, cost |-> cost]),
                 seen \cup {key}, Tail(ks), p, cat)

RECURSIVE KeysLoop(_, _, _, _, _)
KeysLoop(entries, seen, ks, p, cat) ==
  IF ks = <<>> THEN entries
  ELSE LET key == Head(ks)
           r == Resolve(key, cat)
           cost == EvalCost(r.cost, p)
       IN IF key \in seen
          THEN KeysLoop(entries, seen, Tail(ks), p, cat)
          ELSE IF IsSpecialKey(key)
          THEN KeysLoop(Append(entries, SpecialEntry(key)), seen \cup {key}, Tail(ks), p, cat)
          ELSE IF cost.s = 0
          THEN KeysLoop(entries, seen \cup {key}, Tail(ks), p, cat)
          ELSE KeysLoop(Append(entries, [type |-> "fn", name |-> r.name, cost |-> cost]),
                        seen \cup {key}, Tail(ks), p, cat)

\* entries.filter(entry => entry.cost > 0)
FilterEntries_None(entries) == entries

FilterEntries(entries) == SelectSeq(entries, LAMBDA entry : entry.cost.s = 1)

\* for (const entry of entries) totalRam += entry.cost
RECURSIVE SumCosts(_, _)
SumCosts(totalRam, entries) ==
  IF entries = <<>> THEN totalRam
  ELSE SumCosts(FAdd(totalRam, Head(entries).cost), Tail(entries))

getRamCalculationForKeys_BaseTwice(p, ks, cat) ==
  LET entries == FilterEntries(KeysLoop(<<BaseEntry>>, {}, ks, p, cat))
  IN [cost |-> SumCosts(ScriptBaseRamCost, entries), entries |-> entries]

getRamCalculationForKeys(p, ks, cat) ==
  LET entries == FilterEntries(KeysLoop(<<BaseEntry>>, {}, ks, p, cat))
  IN [cost |-> SumCosts(Zero, entries), entries |-> entries]

NoRam == [cost |-> Zero, entries |-> <<>>]

InitRam ==
  /\ player \in PlayerStates
  /\ catalog \in Catalogs
  /\ keys \in KeySeqs
  /\ ram = NoRam
  /\ rpc = "call"
  /\ code = <<>> /\ ast = <<>> /\ stack = <<>>
  /\ missingAwaitLine = -1 /\ visited = <<>> /\ result = 0 /\ pc = "idle"

CallGetRam ==
  /\ rpc = "call"
  /\ ram' = getRamCalculationForKeys(player, keys, catalog)
  /\ rpc' = "done"
  /\ UNCHANGED <<player, catalog, keys>>
  /\ UNCHANGED loopVars

NextRam == CallGetRam
(***************************************************************************)
(* Specifications: one for each of the two functions.                      *)
(***************************************************************************)
SpecLoop == InitLoop /\ [][NextLoop]_vars

SpecRam == InitRam /\ [][NextRam]_vars

(***************************************************************************)
(* Properties of checkInfiniteLoop                                         *)
(***************************************************************************)
\* A loop the check is after: a literal-true test and no await in its subtree.
Unsafe(n) ==
  /\ n.type = "WhileStatement"
  /\ nodeHasTrueTest(n.kids[1])
  /\ ~hasAwait(n)

UnsafeLoops(t) == { n \in Nodes(t) : Unsafe(n) }

NodeAt(s) == CHOOSE n \in Nodes(ast) : n.start = s

\* The unsafe loops the WhileStatement callback ran on, in the order of the walk.
VisitedUnsafe == SelectSeq(visited, LAMBDA s : Unsafe(NodeAt(s)))

\* The while loops of a tree that lie inside no other while loop.
RECURSIVE OuterWhiles(_)
OuterWhiles(t) ==
  IF t.type = "WhileStatement" THEN {t}
  ELSE UNION { OuterWhiles(t.kids[k]) : k \in 1..Len(t.kids) }

\* C1: when the walk reaches two or more unsafe loops, the line returned is
\* the line of the one reached first.
C1_FirstUnsafeReported ==
  pc = "done" =>
    (Len(VisitedUnsafe) >= 2 => result = LineOf(code, VisitedUnsafe[1]))

\* C8: when the script is one while(true) loop that has an await in its
\* subtree, and the body of that loop contains an unsafe loop, the line
\* returned is the line of an unsafe loop of that body, not -1.
C8_InnerLoopOfSafeLoopReported ==
  pc = "done" =>
    (/\ Len(ast.kids) = 1
     /\ ast.kids[1].type = "WhileStatement"
     /\ nodeHasTrueTest(ast.kids[1].kids[1])
     /\ hasAwait(ast.kids[1])
     /\ UnsafeLoops(ast.kids[1].kids[2]) # {}
     => /\ result # -1
        /\ \E u \in UnsafeLoops(ast.kids[1].kids[2]) : result = LineOf(code, u.start))

\* C9: when the only outermost while loop of the script is condemned (true
\* test, no await in its subtree), the line returned is the line of that loop,
\* and the walk ran on no loop nested in it.
C9_CondemnedLoopNotDescended ==
  pc = "done" =>
    \A w \in OuterWhiles(ast) :
      (OuterWhiles(ast) = {w} /\ Unsafe(w)) =>
        /\ result = LineOf(code, w.start)
        /\ visited = <<w.start>>
        /\ \A n \in WhileNodes(w) \ {w} :
             LineOf(code, n.start) # LineOf(code, w.start) => result # LineOf(code, n.start)

\* C9 witness: a finished walk of a script whose only outermost loop is
\* condemned and holds a nested unsafe loop on another line.
C9_Witness ==
  /\ pc = "done"
  /\ \E w \in OuterWhiles(ast) :
       /\ OuterWhiles(ast) = {w} /\ Unsafe(w)
       /\ \E n \in UnsafeLoops(w.kids[2]) : LineOf(code, n.start) # LineOf(code, w.start)
       /\ result = LineOf(code, w.start)

\* C10: the result is -1 exactly when the tree holds no unsafe loop anywhere,
\* and any other result is the line of an unsafe loop.
C10_SentinelIffNoUnsafeLoop ==
  pc = "done" =>
    /\ (result = -1 <=> UnsafeLoops(ast) = {})
    /\ (result # -1 => \E u \in UnsafeLoops(ast) : result = LineOf(code, u.start))

(***************************************************************************)
(* Properties of getRamCalculationForKeys                                  *)
(***************************************************************************)
Range(f) == { f[i] : i \in DOMAIN f }

\* The names an entry for a key that is not special can carry.
NamesOf(key) == {key} \cup { ns \o "." \o key : ns \in Namespaces }

\* The namespaces, by their place in the lookup order, that hold a key.
Holders(key) == { n \in 1..Len(NamespaceOrder) : KeyIn(key, catalog, NamespaceOrder[n]) }

Least(S) == CHOOSE n \in S : \A m \in S : n <= m

\* The sum of the costs of the first n entries, in the order of the list.
RECURSIVE SumTo(_, _)
SumTo(entries, n) == IF n = 0 THEN Zero ELSE FAdd(SumTo(entries, n - 1), entries[n].cost)

\* The keys given that are not special and resolve to no number and no
\* function: in no mapping at all, or to a malformed value.
BadKeys ==
  { k \in Range(keys) :
      /\ ~IsSpecialKey(k)
      /\ CostValue(Resolve(k, catalog).cost).type \notin {"number", "function"} }

\* C2: no entry of the result has a cost that is not above zero.
C2_NoEntryWithoutCost ==
  rpc = "done" => \A i \in 1..Len(ram.entries) : ram.entries[i].cost.s = 1

\* C2 witness: a call in which a key resolved to a cost function that
\* returned a negative number.
C2_Witness ==
  /\ rpc = "done"
  /\ \E k \in Range(keys) :
       ~IsSpecialKey(k) /\ EvalCost(Resolve(k, catalog).cost, player).s = -1

\* C3: the total is the sum of the costs of the entries returned.
C3_TotalIsSumOfEntries ==
  rpc = "done" => ram.cost = SumTo(ram.entries, Len(ram.entries))

\* C3 witness: a call that returned the base entry and more, after an entry
\* pushed in the loop was filtered out.
C3_Witness ==
  /\ rpc = "done"
  /\ Len(ram.entries) >= 2
  /\ Len(KeysLoop(<<BaseEntry>>, {}, keys, player, catalog)) > Len(ram.entries)

\* C4: the total is the same for every sequence of keys with the same set of
\* distinct names, and no name has more than one entry.
C4_TotalDependsOnNameSetOnly ==
  rpc = "done" =>
    /\ \A ks \in KeySeqs :
         Range(ks) = Range(keys) =>
           getRamCalculationForKeys(player, ks, catalog).cost = ram.cost
    /\ \A k \in Range(keys) :
         Cardinality({ i \in 1..Len(ram.entries) :
                         ram.entries[i].name \in NamesOf(k) }) <= 1

\* C5: for a key that is not special and is in two or more namespaces, the
\* first of them in the lookup order alone gives the entry: its value's cost
\* under the name "<namespace>.<key>" when that cost is above zero, and no
\* entry at all otherwise.
C5_FirstNamespaceWins ==
  rpc = "done" =>
    \A k \in Range(keys) :
      (~IsSpecialKey(k) /\ Cardinality(Holders(k)) >= 2) =>
        LET w == NamespaceOrder[Least(Holders(k))]
            v == EvalCost(catalog[w][k], player)
        IN { e \in Range(ram.entries) : e.name \in NamesOf(k) }
             = IF v.s = 1
               THEN {[type |-> "fn", name |-> w \o "." \o k, cost |-> v]}
               ELSE {}

\* C5 witness: a call with a key in two namespaces, the first of which holds a
\* value of no cost and the other a value with a cost.
C5_Witness ==
  /\ rpc = "done"
  /\ \E k \in Range(keys) :
       /\ ~IsSpecialKey(k) /\ Cardinality(Holders(k)) >= 2
       /\ EvalCost(catalog[NamespaceOrder[Least(Holders(k))]][k], player).s # 1
       /\ \E n \in Holders(k) : EvalCost(catalog[NamespaceOrder[n]][k], player).s = 1
       /\ \A e \in Range(ram.entries) : e.name \notin NamesOf(k)

C7_SpecialKeyIgnoresCatalog ==
  (rpc = "done" /\ Len(keys) = 1) =>
    /\ keys[1] = "hacknet" =>
         ram.entries = <<BaseEntry,
                         [type |-> "ns", name |-> "hacknet",
                          cost |-> ScriptHacknetNodesRamCost]>>
    /\ keys[1] \in {"document", "window"} =>
         ram.entries = <<BaseEntry,
                         [type |-> "dom", name |-> keys[1], cost |-> ScriptDomRamCost]>>

\* C7 witness: a call with the one key "hacknet" while RamCosts holds a
\* number under that key.
C7_Witness ==
  /\ rpc = "done"
  /\ keys = <<"hacknet">>
  /\ \E sp \in Spaces : catalog[sp]["hacknet"] = "0.1"
  /\ Len(ram.entries) = 2

====
